---- MODULE Spec2Model ----
(***************************************************************************)
(* Feedback lifecycle of the interaction service: submission               *)
(* (FeedbackService.create_feedback / submit_feedback), validation         *)
(* (ValidationService.validate_feedback, auto_validate_validator_feedback, *)
(* FeedbackService.validate_feedback) and dataset curation                 *)
(* (DatasetService.create_entry_from_feedback).                            *)
(*                                                                         *)
(* A request runs on a worker.  Its reads happen in one step and each      *)
(* db.session.commit() in a later step, so that with two workers two       *)
(* requests can both pass a check before either commits.  The relational   *)
(* store enforces the unique constraints the models declare.               *)
(*                                                                         *)
(* The services address two attributes of a feedback row: `status`         *)
(* (PENDING / VALIDATED / REJECTED, used by ValidationService,             *)
(* DatasetService and create_feedback) and `validation_status`             *)
(* (PENDING / ACCEPTED / REJECTED, the column of the Feedback model, used  *)
(* by FeedbackService.validate_feedback and the leaderboard).  Both are    *)
(* kept, each written only where the code writes it.                       *)
(*                                                                         *)
(* LeaderboardService.get_user_rankings reads the feedback and the         *)
(* interaction table.  Time is kept as the age of a row: the class of      *)
(* now - created_at (or started_at) among the windows the leaderboard      *)
(* distinguishes.                                                          *)
(***************************************************************************)
EXTENDS Integers, Sequences, FiniteSets, TLC

VARIABLES feedback, ratings, validations, entries, interactions,
          dimensions, dimIssued, prompts, responses,
          isValidator, roleCache,
          pc, loc, last

vars == <<feedback, ratings, validations, entries, interactions,
          dimensions, dimIssued, prompts, responses,
          isValidator, roleCache, pc, loc, last>>

store == <<feedback, ratings, validations, entries>>
roles == <<isValidator, roleCache>>
\* the evaluation_dimensions table and the number of ids it has handed out
catalog == <<dimensions, dimIssued>>
\* the prompts and responses tables
chat == <<prompts, responses>>
\* the tables the feedback lifecycle never writes
world == <<interactions, catalog, chat>>

----------------------------------------------------------------------------
(* Bounds *)

\* rows the feedback table may hold, per specification
MaxFeedback == 1
MaxRaceFeedback == 2
MaxCategoryFeedback == 2
MaxCurateFeedback == 1
MaxRankFeedback == 2
\* rows the interaction table may hold
MaxInteractions == 1
\* the oldest age class a row is followed to
MaxAge == 1
\* ratings one submission may carry
MaxRatings == 2
\* dimensions that may be created beyond the initial catalogue
MaxNewDimensions == 1
\* rows the feedback table may hold while the catalogue changes
MaxDimensionFeedback == 1

\* one request at a time
Workers == {"w1"}
\* two requests in flight at the same time
RaceWorkers == {"w1", "w2"}

----------------------------------------------------------------------------
(* Fixed environment: users, the response chain, the dimension catalogue *)

NoVal == "none"
NoId == 0

Users == {"u1", "u2"}
\* users for whom the Auth Service lists the 'admin' permission
Admins == {"u2"}

\* the one stored response: r1 -> prompt p1 -> interaction i1 on model m1;
\* "r0" / "p0" name rows that do not exist
ResponseIds == {"r1"}
ResponseInputs == {"r1", "r0"}
PromptInputs == {"p1", "p0"}
PromptOfResponse == [r \in ResponseIds |-> "p1"]
ModelOfResponse == [r \in ResponseIds |-> "m1"]

\* evaluation_dimensions rows
\* the rows of evaluation_dimensions at the start
Dimensions ==
    { [id |-> "d1", model_id |-> "all", name |-> "accuracy", is_active |-> TRUE],
      [id |-> "d2", model_id |-> "m1",  name |-> "tone", is_active |-> TRUE],
      [id |-> "d3", model_id |-> "m2",  name |-> "depth", is_active |-> TRUE] }

\* the ids uuid4 hands out, in the order it hands them out; a reference of
\* this shape is what uuid.UUID() parses
DimensionIdSeq == <<"d1", "d2", "d3", "d4", "d5", "d6">>
DimensionIds == {DimensionIdSeq[i] : i \in DOMAIN DimensionIdSeq}

\* what a caller may put in rating_data['dimension_id']: an id or a name
DimensionRefs == {"d1", "d3", "TONE", "zzz"}

\* ILIKE without wildcards is a case-insensitive comparison
Lower(s) ==
    CASE s = "TONE" -> "tone"
      [] s = "Accuracy" -> "accuracy"
      [] OTHER -> s

\* feedback_service.py:320-333: uuid.UUID(str(dimension_id)) then query.get,
\* on ValueError the name lookup scoped to the model or 'all'
ResolveDimension(ref, model) ==
    IF ref \in DimensionIds
    THEN {d \in dimensions : d.id = ref}
    ELSE {d \in dimensions : /\ d.model_id \in {model, "all"}
                             /\ Lower(d.name) = Lower(ref)}

\* a score as sent by the caller: an integer, a number with a fractional
\* part (val in tenths: 59 is 5.9), or text int() cannot parse
Score(n) == [kind |-> "int", val |-> n]
ScoreFraction(t) == [kind |-> "float", val |-> t]
ScoreText == [kind |-> "text", val |-> 0]

\* feedback_service.py:345: int(score) of a number truncates toward zero
ToInt(score) ==
    IF score.kind = "int" THEN score.val
    ELSE IF score.val >= 0 THEN score.val \div 10
    ELSE -((-score.val) \div 10)

\* ratings the loop of create_feedback accepts for the stored response
PassingRatings ==
    { [dimension_id |-> "d1",   score |-> Score(5), correct_response |-> NoVal],
      [dimension_id |-> "TONE", score |-> Score(1), correct_response |-> "c1"],
      [dimension_id |-> "d1",   score |-> ScoreFraction(59), correct_response |-> NoVal] }

\* ratings at which it returns an error: score below and above the range,
\* score that is not a number, unknown dimension, dimension of another model
FailingRatings ==
    { [dimension_id |-> "d1",   score |-> Score(0), correct_response |-> NoVal],
      [dimension_id |-> "TONE", score |-> Score(6), correct_response |-> NoVal],
      [dimension_id |-> "d1",   score |-> ScoreText, correct_response |-> NoVal],
      [dimension_id |-> "zzz",  score |-> Score(5), correct_response |-> NoVal],
      [dimension_id |-> "d3",   score |-> Score(5), correct_response |-> NoVal] }

RatingChoices == PassingRatings \cup FailingRatings

\* the loop returns at the first rating that fails and never reads the ones
\* after it: a failing rating is the last of its list
RatingLists ==
    UNION { {l \in [1..n -> RatingChoices] :
                \A i \in 1..(n - 1) : l[i] \in PassingRatings} : n \in 0..MaxRatings }

----------------------------------------------------------------------------
(* Role and permission lookups *)

\* auth_client.has_permission(user, 'admin'): asked on every call
has_permission(u) == u \in Admins

\* user_client.has_role(user, 'validator') is wrapped in lru_cache: the
\* first answer for a user is kept
has_role(u) ==
    IF roleCache[u] = "miss" THEN u \in isValidator ELSE roleCache[u] = "yes"

CacheAfter(cache, u) ==
    IF cache[u] = "miss"
    THEN [cache EXCEPT ![u] = IF u \in isValidator THEN "yes" ELSE "no"]
    ELSE cache

----------------------------------------------------------------------------
(* Worker-local state *)

IdleLoc == [op |-> NoVal]

\* `last` is what the step just taken returned to its caller: the operation,
\* the kind of result, the feedback id and the calling user; NoResult when
\* the step did not end a call
NoResult == [op |-> NoVal, kind |-> NoVal, fid |-> NoId, user |-> NoVal]

Res(op, kind, fid, user) == [op |-> op, kind |-> kind, fid |-> fid, user |-> user]

Idle(w) == pc[w] = "idle"

Return(w, r) ==
    /\ pc' = [pc EXCEPT ![w] = "idle"]
    /\ loc' = [loc EXCEPT ![w] = IdleLoc]
    /\ last' = r

Goto(w, label, l) ==
    /\ pc' = [pc EXCEPT ![w] = label]
    /\ loc' = [loc EXCEPT ![w] = l]
    /\ last' = NoResult

InFlightCreates == Cardinality({w \in DOMAIN pc : pc[w] = "cf_commit"})

----------------------------------------------------------------------------
(* The relational store *)

NoneInt == -1

\* a row of the feedback table as create_feedback builds it (lines 303-307).
\* The constructor sets neither status attribute: validation_status has the
\* column default PENDING (models/feedback.py:24-28), and `status` of a row
\* nobody has validated is the PENDING the services test for
\* (validation_service.py:47, feedback_service.py:435).  validator_id,
\* and validation_notes are never read by the operations modelled here and
\* are left out.  create_feedback passes no category.  created_at has the
\* column default utcnow (models/feedback.py:35): the row is new, age 0
NewFeedback(r, u) ==
    [response_id |-> r, prompt_id |-> NoVal, user_id |-> u,
     status |-> "PENDING", validation_status |-> "PENDING",
     rating |-> NoneInt, binary_evaluation |-> NoVal, ranking |-> NoneInt,
     category |-> NoVal, age |-> 0,
     claimed_by |-> NoVal, claim_age |-> 0]

\* the category submit_feedback is called with
SubmitCategory == "accuracy"

\* a row as submit_feedback builds it (lines 77-89)
NewCategoryFeedback(p, u, rating, binary, ranking) ==
    [response_id |-> NoVal, prompt_id |-> p, user_id |-> u,
     status |-> "PENDING", validation_status |-> "PENDING",
     rating |-> rating, binary_evaluation |-> binary, ranking |-> ranking,
     category |-> SubmitCategory, age |-> 0,
     claimed_by |-> NoVal, claim_age |-> 0]

\* db.session.commit() of a session holding one feedback row and its
\* ratings: the row gets the next id, the ratings reference it
CommitSession(session) ==
    LET fid == Len(feedback) + 1 IN
    [feedback |-> feedback \o session.feedback,
     ratings |-> ratings \o
        [i \in 1..Len(session.ratings) |->
            [session.ratings[i] EXCEPT !.feedback_id = fid]]]

\* db.session.rollback(): the flushed rows of the session are discarded
Rollback(session) ==
    [feedback |-> feedback, ratings |-> ratings]

\* dimension_ratings.dimension_id is a foreign key to
\* evaluation_dimensions.id, checked when the rating is written
DimensionsReferencedExist(rs) ==
    \A i \in 1..Len(rs) : \E d \in dimensions : d.id = rs[i].dimension_id

\* uq_feedback_dimension: one rating per (feedback_id, dimension_id)
ViolatesRatingUnique(rs) ==
    \E i, j \in 1..Len(rs) : i < j /\ rs[i].dimension_id = rs[j].dimension_id

\* validation_records.feedback_id is unique
ValidationExists(f) == \E i \in 1..Len(validations) : validations[i].feedback_id = f

\* dataset_entries.feedback_id is unique
EntryExists(f) == \E i \in 1..Len(entries) : entries[i].feedback_id = f

FeedbackExists(f) == f \in 1..Len(feedback)

RatingsOf(f) == SelectSeq(ratings, LAMBDA r : r.feedback_id = f)

----------------------------------------------------------------------------
(* FeedbackService.create_feedback *)

\* lines 313-361: the loop over dimension_ratings; stops at the first
\* rating that fails, with the ratings added to the session so far
RECURSIVE BuildRatings(_, _, _, _)
BuildRatings(input, model, k, built) ==
    IF k > Len(input) THEN [kind |-> "ok", built |-> built]
    ELSE
      LET rd == input[k]
          found == ResolveDimension(rd.dimension_id, model)
      IN IF found = {} THEN [kind |-> "UnknownDimension", built |-> built]
         ELSE
           LET dimension == CHOOSE d \in found : TRUE IN
           IF dimension.model_id # model /\ dimension.model_id # "all"
           THEN [kind |-> "DimensionNotApplicable", built |-> built]
           ELSE IF rd.score.kind = "text"
           THEN [kind |-> "ScoreNotNumber", built |-> built]
           ELSE IF ~(1 <= ToInt(rd.score) /\ ToInt(rd.score) <= 5)
           THEN [kind |-> "ScoreOutOfRange", built |-> built]
           ELSE BuildRatings(input, model, k + 1,
                  Append(built, [feedback_id |-> NoId,
                                 dimension_id |-> dimension.id,
                                 score |-> ToInt(rd.score),
                                 correct_response |-> rd.correct_response]))

\* the dimension lookup of iteration k autoflushes the ratings added before
\* it; two of them on one dimension make that flush raise IntegrityError,
\* which the loop does not catch
RaisesInLoop(b, input) ==
    LET flushed == IF b.kind = "ok" THEN Len(input) - 1 ELSE Len(b.built) IN
    \E i, j \in 1..flushed :
        i < j /\ b.built[i].dimension_id = b.built[j].dimension_id

\* lines 294-300
ExistingFeedback(r, u) ==
    \E i \in 1..Len(feedback) :
        feedback[i].response_id = r /\ feedback[i].user_id = u

\* lines 278-361: the chain and duplicate checks, the flush of the new row
\* and the rating loop
CreateFeedbackBegin(w, r, u, input) ==
    /\ Idle(w)
    /\ UNCHANGED world
    /\ UNCHANGED <<validations, entries, roles>>
    /\ IF r \notin ResponseIds
       THEN /\ UNCHANGED <<feedback, ratings>>
            /\ Return(w, Res("create", "NotFound", NoId, u))
       ELSE IF ExistingFeedback(r, u)
       THEN /\ UNCHANGED <<feedback, ratings>>
            /\ Return(w, Res("create", "Duplicate", NoId, u))
       ELSE
         LET b == BuildRatings(input, ModelOfResponse[r], 1, <<>>)
             session == [feedback |-> <<NewFeedback(r, u)>>, ratings |-> b.built]
             st == Rollback(session)
         IN IF RaisesInLoop(b, input)
            THEN /\ feedback' = st.feedback /\ ratings' = st.ratings
                 /\ Return(w, Res("create", "Raised", NoId, u))
            ELSE IF b.kind # "ok"
            THEN /\ feedback' = st.feedback /\ ratings' = st.ratings
                 /\ Return(w, Res("create", b.kind, NoId, u))
            ELSE /\ UNCHANGED <<feedback, ratings>>
                 /\ Goto(w, "cf_commit",
                         [op |-> "create", user_id |-> u, input |-> input,
                          session |-> session])

\* lines 363-368
CreateFeedbackCommit(w) ==
    /\ pc[w] = "cf_commit"
    /\ UNCHANGED world
    /\ UNCHANGED <<validations, entries, roles>>
    /\ LET l == loc[w] IN
       \E dbOk \in BOOLEAN :
          IF /\ dbOk /\ ~ViolatesRatingUnique(l.session.ratings)
             /\ DimensionsReferencedExist(l.session.ratings)
          THEN LET st == CommitSession(l.session) IN
               /\ feedback' = st.feedback /\ ratings' = st.ratings
               /\ Goto(w, "cf_post",
                       [op |-> "create", user_id |-> l.user_id,
                        fid |-> Len(st.feedback)])
          ELSE LET st == Rollback(l.session) IN
               /\ feedback' = st.feedback /\ ratings' = st.ratings
               /\ Return(w, Res("create", "SaveError", NoId, l.user_id))

----------------------------------------------------------------------------
(* DatasetService.create_entry_from_feedback *)

\* lines 54-69: the scan over feedback.dimension_ratings; every rating with
\* a correction assigns correct_response
RECURSIVE ScanCorrection(_, _, _)
ScanCorrection(rs, k, correct_response) ==
    IF k > Len(rs) THEN correct_response
    ELSE ScanCorrection(rs, k + 1,
            IF rs[k].correct_response # NoVal
            THEN rs[k].correct_response ELSE correct_response)

\* lines 72-86
BuildEntry(f) ==
    [feedback_id |-> f,
     model_id |-> ModelOfResponse[feedback[f].response_id],
     correct_response |-> ScanCorrection(RatingsOf(f), 1, NoVal),
     dimension_ratings |-> [i \in 1..Len(RatingsOf(f)) |->
                    [dimension_id |-> RatingsOf(f)[i].dimension_id,
                     score |-> RatingsOf(f)[i].score]],
     feedback_user_id |-> feedback[f].user_id]

CurateCheckAnyStatus(f) ==
    IF EntryExists(f) THEN "existing"
    ELSE IF ~FeedbackExists(f) THEN "NotValidated"
    ELSE IF feedback[f].response_id \notin ResponseIds THEN "BrokenChain"
    ELSE "build"

\* lines 31-51: what the reads decide
CurateCheck(f) ==
    IF EntryExists(f) THEN "existing"
    ELSE IF ~FeedbackExists(f) THEN "NotValidated"
    ELSE IF feedback[f].status # "VALIDATED" THEN "NotValidated"
    ELSE IF feedback[f].response_id \notin ResponseIds THEN "BrokenChain"
    ELSE "build"

FinishPropagates(w, l, outcome) ==
    Return(w, Res(l.op, outcome, l.fid, l.user_id))

\* what the caller of the curation gets back when it ends with `outcome`:
\* validate_feedback and create_feedback ignore it and report success
Finish(w, l, outcome) ==
    IF l.op = "curate"
    THEN Return(w, Res("curate", outcome, l.fid, l.user_id))
    ELSE Return(w, Res(l.op, "ok", l.fid, l.user_id))

\* lines 31-86 for the call described by l
CurateReadStep(w, l) ==
    LET c == CurateCheck(l.fid) IN
    IF c = "build"
    THEN Goto(w, "cur_commit", [l EXCEPT !.entry = BuildEntry(l.fid)])
    ELSE Finish(w, l, c)

CurateLoc(op, f, u) == [op |-> op, fid |-> f, user_id |-> u, entry |-> NoVal]

\* the public operation called on its own
Curate(w, f) ==
    /\ Idle(w)
    /\ UNCHANGED world
    /\ UNCHANGED <<store, roles>>
    /\ CurateReadStep(w, CurateLoc("curate", f, NoVal))

\* the curation started by a validation that has committed
CurateRead(w) ==
    /\ pc[w] = "cur_read"
    /\ UNCHANGED world
    /\ UNCHANGED <<store, roles>>
    /\ CurateReadStep(w, loc[w])

\* the unique constraint on dataset_entries.feedback_id, checked at commit
EntryInsertAllowed(f) == ~EntryExists(f)

\* lines 88-104
CurateCommit(w) ==
    /\ pc[w] = "cur_commit"
    /\ UNCHANGED world
    /\ UNCHANGED <<feedback, ratings, validations, roles>>
    /\ LET l == loc[w] IN
       \E dbOk \in BOOLEAN :
          IF dbOk /\ EntryInsertAllowed(l.fid)
          THEN /\ entries' = Append(entries, l.entry)
               /\ Finish(w, l, "created")
          ELSE /\ UNCHANGED entries
               /\ Finish(w, l, "SaveError")

----------------------------------------------------------------------------
(* ValidationService *)

NewValidationInvalid(f, v, is_valid, notes) ==
    [feedback_id |-> f, validator_id |-> v, is_valid |-> FALSE,
     notes |-> notes]

NewValidation(f, v, is_valid, notes) ==
    [feedback_id |-> f, validator_id |-> v, is_valid |-> is_valid,
     notes |-> notes]

\* the unique constraint on validation_records.feedback_id, checked at commit
ValidationInsertAllowed(f) == ~ValidationExists(f)

\* validation_service.py:65 and :136
StatusFor(is_valid) == IF is_valid THEN "VALIDATED" ELSE "REJECTED"

AlreadyValidatedUnchecked(f) == FALSE

\* validation_service.py:46-48
AlreadyValidated(f) == feedback[f].status # "PENDING"

\* validation_service.py:50-52
SelfValidation(f, v) == feedback[f].user_id = v /\ ~has_permission(v)

\* validation_service.py:34-39
Authorized(v) == has_role(v) \/ has_permission(v)

\* validate_feedback lines 31-52; via = "api" is the route of
\* api/validation.py, which first asks has_role itself (lines 19-21) and
\* answers 403 on its own; every other result is the service's
ValidateBegin(w, f, v, is_valid, via) ==
    /\ Idle(w)
    /\ UNCHANGED world
    /\ UNCHANGED <<store, isValidator>>
    /\ roleCache' = CacheAfter(roleCache, v)
    /\ IF via = "api" /\ ~has_role(v)
       THEN Return(w, Res("validate_api", "Forbidden", f, v))
       ELSE IF ~Authorized(v)
       THEN Return(w, Res("validate", "Unauthorized", f, v))
       ELSE IF ~FeedbackExists(f)
       THEN Return(w, Res("validate", "FeedbackNotFound", f, v))
       ELSE IF AlreadyValidated(f)
       THEN Return(w, Res("validate", "AlreadyValidated", f, v))
       ELSE IF SelfValidation(f, v)
       THEN Return(w, Res("validate", "SelfValidation", f, v))
       ELSE Goto(w, "vf_commit",
                 [op |-> "validate", fid |-> f, user_id |-> v,
                  is_valid |-> is_valid])

\* validate_feedback lines 54-104
ValidateCommit(w) ==
    /\ pc[w] = "vf_commit"
    /\ UNCHANGED world
    /\ UNCHANGED <<ratings, entries, roles>>
    /\ LET l == loc[w] IN
       \E dbOk \in BOOLEAN :
          IF dbOk /\ ValidationInsertAllowed(l.fid)
          THEN /\ validations' = Append(validations,
                      NewValidation(l.fid, l.user_id, l.is_valid, "manual"))
               /\ feedback' = [feedback EXCEPT
                                 ![l.fid].status = StatusFor(l.is_valid)]
               /\ IF l.is_valid
                  THEN Goto(w, "cur_read", CurateLoc("validate", l.fid, l.user_id))
                  ELSE Return(w, Res("validate", "ok", l.fid, l.user_id))
          ELSE /\ UNCHANGED <<feedback, validations>>
               /\ Return(w, Res("validate", "SaveError", l.fid, l.user_id))

CreateFeedbackPostUncaught(w) ==
    /\ pc[w] = "cf_post"
    /\ UNCHANGED world
    /\ UNCHANGED <<ratings, entries, isValidator>>
    /\ LET l == loc[w] IN
       /\ roleCache' = CacheAfter(roleCache, l.user_id)
       /\ IF ~has_role(l.user_id)
          THEN /\ UNCHANGED <<feedback, validations>>
               /\ Return(w, Res("create", "ok", l.fid, l.user_id))
          ELSE \E dbOk \in BOOLEAN :
                 IF dbOk /\ ValidationInsertAllowed(l.fid)
                 THEN /\ validations' = Append(validations,
                            NewValidation(l.fid, l.user_id, TRUE, "auto"))
                      /\ feedback' = [feedback EXCEPT
                                        ![l.fid].status = "VALIDATED"]
                      /\ Goto(w, "cur_read", CurateLoc("create", l.fid, l.user_id))
                 ELSE /\ UNCHANGED <<feedback, validations>>
                      /\ Return(w, Res("create", "Raised", l.fid, l.user_id))

\* create_feedback lines 370-387 with auto_validate_validator_feedback
\* (validation_service.py:107-157) up to its commit
CreateFeedbackPost(w) ==
    /\ pc[w] = "cf_post"
    /\ UNCHANGED world
    /\ UNCHANGED <<ratings, entries, isValidator>>
    /\ LET l == loc[w] IN
       /\ roleCache' = CacheAfter(roleCache, l.user_id)
       /\ IF ~has_role(l.user_id)
          THEN /\ UNCHANGED <<feedback, validations>>
               /\ Return(w, Res("create", "ok", l.fid, l.user_id))
          ELSE \E dbOk \in BOOLEAN :
                 IF dbOk /\ ValidationInsertAllowed(l.fid)
                 THEN /\ validations' = Append(validations,
                            NewValidation(l.fid, l.user_id, TRUE, "auto"))
                      /\ feedback' = [feedback EXCEPT
                                        ![l.fid].status = "VALIDATED"]
                      /\ Goto(w, "cur_read", CurateLoc("create", l.fid, l.user_id))
                 ELSE /\ UNCHANGED <<feedback, validations>>
                      /\ Return(w, Res("create", "ok", l.fid, l.user_id))

----------------------------------------------------------------------------
(* FeedbackService: the category-based entry points *)

StatusInputs == {"ACCEPTED", "REJECTED", "PENDING"}

\* feedback_service.py:109-159; a failing commit is not caught
FeedbackServiceValidate(w, f, v, status) ==
    /\ Idle(w)
    /\ UNCHANGED world
    /\ UNCHANGED <<ratings, validations, entries, roles>>
    /\ IF ~FeedbackExists(f)
       THEN /\ UNCHANGED feedback
            /\ Return(w, Res("fs_validate", "FeedbackNotFound", f, v))
       ELSE IF status \notin {"ACCEPTED", "REJECTED"}
       THEN /\ UNCHANGED feedback
            /\ Return(w, Res("fs_validate", "InvalidStatus", f, v))
       ELSE \E dbOk \in BOOLEAN :
              IF dbOk
              THEN /\ feedback' = [feedback EXCEPT
                                     ![f].validation_status = status]
                   /\ Return(w, Res("fs_validate", "ok", f, v))
              ELSE /\ UNCHANGED feedback
                   /\ Return(w, Res("fs_validate", "Raised", f, v))

\* (rating, binary_evaluation, ranking) as a caller may send them
SignalChoices ==
    { <<NoneInt, NoVal, NoneInt>>, <<3, NoVal, NoneInt>>, <<6, NoVal, NoneInt>>,
      <<0, "yes", NoneInt>>, <<NoneInt, "yes", NoneInt>>, <<NoneInt, NoVal, 1>> }

\* feedback_service.py:65-69
HasSignal(rating, binary, ranking) ==
    rating # NoneInt \/ binary # NoVal \/ ranking # NoneInt

\* feedback_service.py:26-106; a failing commit is not caught
SubmitFeedback(w, p, u, rating, binary, ranking) ==
    /\ Idle(w)
    /\ UNCHANGED world
    /\ UNCHANGED <<ratings, validations, entries, roles>>
    /\ IF p \notin {PromptOfResponse[r] : r \in ResponseIds}
       THEN /\ UNCHANGED feedback
            /\ Return(w, Res("submit", "NotFound", NoId, u))
       ELSE IF ~HasSignal(rating, binary, ranking)
       THEN /\ UNCHANGED feedback
            /\ Return(w, Res("submit", "NoSignal", NoId, u))
       ELSE IF rating # NoneInt /\ ~(1 <= rating /\ rating <= 5)
       THEN /\ UNCHANGED feedback
            /\ Return(w, Res("submit", "RatingOutOfRange", NoId, u))
       ELSE \E dbOk \in BOOLEAN :
              IF dbOk
              THEN /\ feedback' = Append(feedback,
                          NewCategoryFeedback(p, u, rating, binary, ranking))
                   /\ Return(w, Res("submit", "ok", Len(feedback) + 1, u))
              ELSE /\ UNCHANGED feedback
                   /\ Return(w, Res("submit", "Raised", NoId, u))

----------------------------------------------------------------------------
(* InteractionService *)

\* interaction_service.py:104-113: started_at has the column default utcnow
\* and status the default ACTIVE; a failing commit is not caught
CreateInteraction(w, u) ==
    /\ Idle(w)
    /\ UNCHANGED <<store, catalog, chat, roles>>
    /\ \E dbOk \in BOOLEAN :
         IF dbOk
         THEN /\ interactions' = Append(interactions,
                     [user_id |-> u, status |-> "ACTIVE", age |-> 0])
              /\ Return(w, Res("start", "ok", Len(interactions) + 1, u))
         ELSE /\ UNCHANGED interactions
              /\ Return(w, Res("start", "Raised", NoId, u))

EndStatusInputs == {"COMPLETED", "ABANDONED", "ACTIVE"}

\* interaction_service.py:170-198
EndInteraction(w, i, status) ==
    /\ Idle(w)
    /\ UNCHANGED <<store, catalog, chat, roles>>
    /\ IF i \notin 1..Len(interactions)
       THEN /\ UNCHANGED interactions
            /\ Return(w, Res("end", "NotFound", i, NoVal))
       ELSE \E dbOk \in BOOLEAN :
              IF dbOk
              THEN /\ interactions' = [interactions EXCEPT ![i].status =
                          IF status \in {"COMPLETED", "ABANDONED"}
                          THEN status ELSE "COMPLETED"]
                   /\ Return(w, Res("end", "ok", i, NoVal))
              ELSE /\ UNCHANGED interactions
                   /\ Return(w, Res("end", "Raised", i, NoVal))

----------------------------------------------------------------------------
(* LeaderboardService.get_user_rankings *)

\* age classes of a row: 0 not older than a day, 1 not older than a week,
\* 2 not older than 30 days, 3 older

\* lines 30-38 with the filters of lines 49-50 and 63-64: the oldest age
\* class that passes `>= start_date`; no filter without a start_date
InWindow(age, time_period) ==
    IF time_period = "daily" THEN age <= 0
    ELSE IF time_period = "weekly" THEN age <= 1
    ELSE IF time_period = "monthly" THEN age <= 2
    ELSE TRUE

\* lines 49-52: the rows of the feedback query
FeedbackRows(time_period, category) ==
    {i \in 1..Len(feedback) :
        /\ InWindow(feedback[i].age, time_period)
        /\ category # NoVal => feedback[i].category = category}

\* lines 63-64: the rows of the interaction query; it has no category filter
InteractionRows(time_period) ==
    {i \in 1..Len(interactions) : InWindow(interactions[i].age, time_period)}

\* the keys of user_metrics: Feedback.user_id is a String column and comes
\* back as str, Interaction.user_id is a UUID(as_uuid=True) column and comes
\* back as a uuid.UUID, which is equal to no str
StrKey(u) == <<"str", u>>
UuidKey(u) == <<"uuid", u>>

\* str(user_id), line 110
KeyToStr(key) == key[2]

\* lines 40-47: one aggregate row per user_id of the feedback query
FeedbackGroup(u, time_period, category) ==
    LET rows == {i \in FeedbackRows(time_period, category) :
                    feedback[i].user_id = u} IN
    [key |-> StrKey(u),
     feedback_count |-> Cardinality(rows),
     accepted_feedback |-> Cardinality({i \in rows :
                    feedback[i].validation_status = "ACCEPTED"})]

\* lines 54-61: one aggregate row per user_id of the interaction query
InteractionGroup(u, time_period) ==
    LET rows == {i \in InteractionRows(time_period) :
                    interactions[i].user_id = u} IN
    [key |-> UuidKey(u),
     interaction_count |-> Cardinality(rows),
     completed_interactions |-> Cardinality({i \in rows :
                    interactions[i].status = "COMPLETED"})]

\* the orders in which a query without ORDER BY may return the rows of S
RowOrders(S) ==
    {o \in [1..Cardinality(S) -> S] :
        \A i, j \in 1..Cardinality(S) : i # j => o[i] # o[j]}

\* lines 69-75 and 81-87
NewMetrics(key) ==
    [key |-> key, feedback_count |-> 0, accepted_feedback |-> 0,
     interaction_count |-> 0, completed_interactions |-> 0,
     total_points |-> 0]

\* position of key in the dict, 0 when it is not a key
IndexOfKey(metrics, key) ==
    IF \E j \in 1..Len(metrics) : metrics[j].key = key
    THEN CHOOSE j \in 1..Len(metrics) : metrics[j].key = key
    ELSE 0

\* `if user_id not in user_metrics: user_metrics[user_id] = {...}`
WithKey(metrics, key) ==
    IF IndexOfKey(metrics, key) = 0
    THEN Append(metrics, NewMetrics(key)) ELSE metrics

\* lines 67-78: the dict after the feedback rows fr[k..], in insertion order
RECURSIVE AddFeedbackRows(_, _, _)
AddFeedbackRows(metrics, fr, k) ==
    IF k > Len(fr) THEN metrics
    ELSE LET m == WithKey(metrics, fr[k].key)
             j == IndexOfKey(m, fr[k].key) IN
         AddFeedbackRows(
            [m EXCEPT ![j].feedback_count = fr[k].feedback_count,
                      ![j].accepted_feedback = fr[k].accepted_feedback,
                      ![j].total_points = @ + fr[k].feedback_count * 5
                                            + fr[k].accepted_feedback * 10],
            fr, k + 1)

\* lines 79-90
RECURSIVE AddInteractionRows(_, _, _)
AddInteractionRows(metrics, ir, k) ==
    IF k > Len(ir) THEN metrics
    ELSE LET m == WithKey(metrics, ir[k].key)
             j == IndexOfKey(m, ir[k].key) IN
         AddInteractionRows(
            [m EXCEPT ![j].interaction_count = ir[k].interaction_count,
                      ![j].completed_interactions = ir[k].completed_interactions,
                      ![j].total_points = @ + ir[k].interaction_count * 2
                                            + ir[k].completed_interactions * 5],
            ir, k + 1)

\* x put into a list sorted by total_points descending, behind the items
\* that have as many points: sorted() is stable, also with reverse=True
InsertByPoints(sorted, x) ==
    LET ahead == Cardinality({i \in 1..Len(sorted) :
                    sorted[i].total_points >= x.total_points}) IN
    SubSeq(sorted, 1, ahead) \o <<x>> \o SubSeq(sorted, ahead + 1, Len(sorted))

\* lines 92-95: sorted(user_metrics.items(), key=total_points, reverse=True)
RECURSIVE SortByPoints(_, _, _)
SortByPoints(metrics, k, sorted) ==
    IF k > Len(metrics) THEN sorted
    ELSE SortByPoints(metrics, k + 1, InsertByPoints(sorted, metrics[k]))

\* line 96: [:limit] for a limit of at least 1
Truncate(seq, limit) ==
    SubSeq(seq, 1, IF Len(seq) < limit THEN Len(seq) ELSE limit)

\* what the profile lookup of lines 98-103 may do: return the profiles
\* ("found"), return none ("missing"), or raise ("raises")

\* lines 105-114
Rankings(sorted_users, profiles) ==
    [rank \in 1..Len(sorted_users) |->
        [rank |-> rank,
         user_id |-> KeyToStr(sorted_users[rank].key),
         username |-> IF profiles = "found"
                      THEN KeyToStr(sorted_users[rank].key) ELSE "Unknown",
         feedback_count |-> sorted_users[rank].feedback_count,
         accepted_feedback |-> sorted_users[rank].accepted_feedback,
         interaction_count |-> sorted_users[rank].interaction_count,
         completed_interactions |-> sorted_users[rank].completed_interactions,
         total_points |-> sorted_users[rank].total_points]]

\* the rankings for the aggregate rows returned in the orders fo and io
UserRankings(time_period, category, limit, fo, io, profiles) ==
    LET fr == [k \in 1..Len(fo) |-> FeedbackGroup(fo[k], time_period, category)]
        ir == [k \in 1..Len(io) |-> InteractionGroup(io[k], time_period)]
        user_metrics == AddInteractionRows(AddFeedbackRows(<<>>, fr, 1), ir, 1)
    IN Rankings(Truncate(SortByPoints(user_metrics, 1, <<>>), limit), profiles)

\* what a ranking call returns: the result with its arguments
RankResult(kind, time_period, category, limit, rankings) ==
    [op |-> "rank", kind |-> kind, fid |-> NoId, user |-> NoVal,
     time_period |-> time_period, category |-> category, limit |-> limit,
     rankings |-> rankings]

TimePeriods == {"daily", "weekly", "monthly", "all_time"}

\* api/leaderboard.py:10-33 with get_user_rankings.  The except branch of
\* lines 101-103 names a logger the module never defines, so a lookup that
\* raises ends the call with that NameError.  get_bulk_profiles returns at
\* once for an empty list of users (user_client.py:173-174) and cannot
\* raise then
GetRankings(w, time_period, category, limit, profiles) ==
    /\ Idle(w)
    /\ UNCHANGED <<store, interactions, catalog, chat, roles>>
    /\ IF time_period \notin TimePeriods \/ limit < 1 \/ limit > 1000
       THEN Return(w, RankResult("BadRequest", time_period, category, limit, <<>>))
       ELSE \E fo \in RowOrders({feedback[i].user_id :
                          i \in FeedbackRows(time_period, category)}),
               io \in RowOrders({interactions[i].user_id :
                          i \in InteractionRows(time_period)}) :
              LET rankings == UserRankings(time_period, category, limit,
                                           fo, io, profiles) IN
              IF profiles = "raises" /\ Len(rankings) > 0
              THEN Return(w, RankResult("Raised", time_period, category, limit, <<>>))
              ELSE Return(w, RankResult("ok", time_period, category, limit, rankings))

\* time passes: every row grows one age class older, up to the oldest
\* class followed
Older(rows) ==
    [i \in 1..Len(rows) |->
        [rows[i] EXCEPT !.age = IF @ < MaxAge THEN @ + 1 ELSE @]]

Tick ==
    /\ \A w \in DOMAIN pc : Idle(w)
    /\ \/ \E i \in 1..Len(feedback) : feedback[i].age < MaxAge
       \/ \E i \in 1..Len(interactions) : interactions[i].age < MaxAge
    /\ feedback' = Older(feedback)
    /\ interactions' = Older(interactions)
    /\ last' = NoResult
    /\ UNCHANGED <<ratings, validations, entries, catalog, chat, roles, pc, loc>>

----------------------------------------------------------------------------
(* DimensionService and the dimension routes *)

\* what a dimension operation returned: the kind of result, the id of the
\* dimension it concerned and, for a listing, the rows it returned
DimResult(op, kind, id, rows) ==
    [op |-> op, kind |-> kind, fid |-> NoId, user |-> NoVal,
     dimension_id |-> id, dimensions |-> rows]

DimensionUniqueUnchecked(rows) == TRUE

\* uq_model_dimension: one row per (model_id, name), active or not
DimensionUnique(rows) ==
    \A a, b \in rows :
        (a.model_id = b.model_id /\ a.name = b.name) => a.id = b.id

\* dimension_ratings.dimension_id references evaluation_dimensions.id and
\* is not nullable
DimensionReferenced(id) ==
    \E i \in 1..Len(ratings) : ratings[i].dimension_id = id

SameNameExists(model_id, name) ==
    \E d \in dimensions : d.model_id = model_id /\ d.name = name

\* create_dimension lines 31-43; valid is the answer of
\* ModelClient.validate_model
CreateDimensionBegin(w, model_id, name, valid) ==
    /\ Idle(w)
    /\ UNCHANGED <<store, world, roles>>
    /\ IF model_id # "all" /\ ~valid
       THEN Return(w, DimResult("create_dimension", "ModelNotFound", NoVal, {}))
       ELSE IF SameNameExists(model_id, name)
       THEN Return(w, DimResult("create_dimension", "Conflict", NoVal, {}))
       ELSE Goto(w, "cd_commit",
                 [op |-> "create_dimension", model_id |-> model_id,
                  name |-> name])

\* create_dimension lines 45-71: IntegrityError at the commit is answered
\* with the message of the existence check
CreateDimensionCommit(w) ==
    /\ pc[w] = "cd_commit"
    /\ UNCHANGED <<store, interactions, chat, roles>>
    /\ LET l == loc[w]
           id == DimensionIdSeq[dimIssued + 1]
       IN \E dbOk \in BOOLEAN :
            IF SameNameExists(l.model_id, l.name)
            THEN /\ UNCHANGED catalog
                 /\ Return(w, DimResult("create_dimension", "Conflict", NoVal, {}))
            ELSE IF ~dbOk
            THEN /\ UNCHANGED catalog
                 /\ Return(w, DimResult("create_dimension", "SaveError", NoVal, {}))
            ELSE /\ dimensions' = dimensions \cup
                        {[id |-> id, model_id |-> l.model_id,
                          name |-> l.name, is_active |-> TRUE]}
                 /\ dimIssued' = dimIssued + 1
                 /\ Return(w, DimResult("create_dimension", "ok", id, {}))

\* the row after the assignments of an update: NoVal leaves a column
\* alone, is_active is given as "True" or "False"
UpdatedRow(d, name, is_active) ==
    [d EXCEPT !.name = IF name = NoVal THEN d.name ELSE name,
              !.is_active = IF is_active = NoVal THEN d.is_active
                            ELSE is_active = "True"]

\* update_dimension lines 131-152
UpdateDimensionBegin(w, id, name, is_active) ==
    /\ Idle(w)
    /\ UNCHANGED <<store, world, roles>>
    /\ IF ~\E d \in dimensions : d.id = id
       THEN Return(w, DimResult("update_dimension", "NotFound", id, {}))
       ELSE LET dimension == CHOOSE d \in dimensions : d.id = id IN
            IF /\ name # NoVal
               /\ \E e \in dimensions : /\ e.model_id = dimension.model_id
                                        /\ e.name = name
                                        /\ e.id # id
            THEN Return(w, DimResult("update_dimension", "Conflict", id, {}))
            ELSE Goto(w, "ud_commit",
                      [op |-> "update_dimension", id |-> id, name |-> name,
                       is_active |-> is_active])

\* update_dimension lines 154-169: the UPDATE of a row deleted in the
\* meantime, a unique violation and a failing commit all end in the except
UpdateDimensionCommit(w) ==
    /\ pc[w] = "ud_commit"
    /\ UNCHANGED <<store, interactions, chat, roles, dimIssued>>
    /\ LET l == loc[w] IN
       \E dbOk \in BOOLEAN :
         IF ~\E d \in dimensions : d.id = l.id
         THEN /\ UNCHANGED dimensions
              /\ Return(w, DimResult("update_dimension", "SaveError", l.id, {}))
         ELSE LET dimension == CHOOSE d \in dimensions : d.id = l.id
                  rows == (dimensions \ {dimension})
                             \cup {UpdatedRow(dimension, l.name, l.is_active)}
              IN IF dbOk /\ DimensionUnique(rows)
                 THEN /\ dimensions' = rows
                      /\ Return(w, DimResult("update_dimension", "ok", l.id, {}))
                 ELSE /\ UNCHANGED dimensions
                      /\ Return(w, DimResult("update_dimension", "SaveError", l.id, {}))

\* api/dimensions.py:68-93: the PUT route assigns the name it is given and
\* commits outside any try; it never touches is_active
UpdateDimensionRoute(w, id, name) ==
    /\ Idle(w)
    /\ UNCHANGED <<store, interactions, chat, roles, dimIssued>>
    /\ IF ~\E d \in dimensions : d.id = id
       THEN /\ UNCHANGED dimensions
            /\ Return(w, DimResult("put_dimension", "NotFound", id, {}))
       ELSE LET dimension == CHOOSE d \in dimensions : d.id = id
                rows == (dimensions \ {dimension})
                           \cup {UpdatedRow(dimension, name, NoVal)}
            IN \E dbOk \in BOOLEAN :
                 IF dbOk /\ DimensionUnique(rows)
                 THEN /\ dimensions' = rows
                      /\ Return(w, DimResult("put_dimension", "ok", id, {}))
                 ELSE /\ UNCHANGED dimensions
                      /\ Return(w, DimResult("put_dimension", "Raised", id, {}))

DeleteDimensionUnreferenced(w, id) ==
    /\ Idle(w)
    /\ UNCHANGED <<store, interactions, chat, roles, dimIssued>>
    /\ IF ~\E d \in dimensions : d.id = id
       THEN /\ UNCHANGED dimensions
            /\ Return(w, DimResult("delete_dimension", "NotFound", id, {}))
       ELSE \E dbOk \in BOOLEAN :
              IF dbOk
              THEN /\ dimensions' = {d \in dimensions : d.id # id}
                   /\ Return(w, DimResult("delete_dimension", "ok", id, {}))
              ELSE /\ UNCHANGED dimensions
                   /\ Return(w, DimResult("delete_dimension", "SaveError", id, {}))

\* delete_dimension lines 183-201: session.delete detaches the ratings of
\* the dimension by setting their dimension_id to NULL, which the column
\* does not allow, so the commit of a referenced dimension raises and the
\* except rolls back
DeleteDimension(w, id) ==
    /\ Idle(w)
    /\ UNCHANGED <<store, interactions, chat, roles, dimIssued>>
    /\ IF ~\E d \in dimensions : d.id = id
       THEN /\ UNCHANGED dimensions
            /\ Return(w, DimResult("delete_dimension", "NotFound", id, {}))
       ELSE \E dbOk \in BOOLEAN :
              IF dbOk /\ ~DimensionReferenced(id)
              THEN /\ dimensions' = {d \in dimensions : d.id # id}
                   /\ Return(w, DimResult("delete_dimension", "ok", id, {}))
              ELSE /\ UNCHANGED dimensions
                   /\ Return(w, DimResult("delete_dimension", "SaveError", id, {}))

\* model_client.py:153-191: the four default dimensions, wrapped in a
\* ClientResponse
DefaultDimensionNames == {"Accuracy", "Relevance", "Completeness", "Coherence"}
ModelClientDimensions == [success |-> TRUE, data |-> DefaultDimensionNames]

\* dimension_service.py:85-93
ApplicableDimensions(model_id, active_only) ==
    {d \in dimensions : /\ d.model_id \in {model_id, "all"}
                        /\ active_only => d.is_active}

\* get_model_dimensions lines 85-115: with no row found the defaults of the
\* model client are asked for; the ClientResponse is truthy when it
\* succeeded, and the comprehension then iterates the ClientResponse
\* itself, which defines no __iter__: TypeError
GetModelDimensions(w, model_id, active_only) ==
    /\ Idle(w)
    /\ UNCHANGED <<store, world, roles>>
    /\ LET found == ApplicableDimensions(model_id, active_only) IN
       IF found # {}
       THEN Return(w, DimResult("get_model_dimensions", "ok", model_id, found))
       ELSE IF ModelClientDimensions.success
       THEN Return(w, DimResult("get_model_dimensions", "Raised", model_id, {}))
       ELSE Return(w, DimResult("get_model_dimensions", "ok", model_id, {}))

----------------------------------------------------------------------------
(* The claim routes of api/feedback.py *)

\* claim_age is the age class of claimed_at: 0 younger than five minutes,
\* 1 older

\* api/feedback.py:153-156: unclaimed, or claimed more than 5 minutes ago
Claimable(f) ==
    feedback[f].claimed_by = NoVal \/ feedback[f].claim_age >= 1

\* claimed_by as a loaded row carries it: the column is UUID(as_uuid=True),
\* so a stored claim comes back as uuid.UUID, no claim as None
LoadClaimedBy(c) == IF c = NoVal THEN <<"none", NoVal>> ELSE UuidKey(c)

\* claim_feedback lines 150-159: the query for a claimable row; .first()
\* without an order returns any of them
ClaimBegin(w, v) ==
    /\ Idle(w)
    /\ UNCHANGED <<store, world, roles>>
    /\ IF \A f \in 1..Len(feedback) : ~Claimable(f)
       THEN Return(w, Res("claim", "NotFound", NoId, v))
       ELSE \E f \in 1..Len(feedback) :
              /\ Claimable(f)
              /\ Goto(w, "cl_commit", [op |-> "claim", fid |-> f, user_id |-> v])

\* claim_feedback lines 161-166: the UPDATE by primary key and the commit,
\* outside any try
ClaimCommit(w) ==
    /\ pc[w] = "cl_commit"
    /\ UNCHANGED world
    /\ UNCHANGED <<ratings, validations, entries, roles>>
    /\ LET l == loc[w] IN
       \E dbOk \in BOOLEAN :
          IF dbOk
          THEN /\ feedback' = [feedback EXCEPT ![l.fid].claimed_by = l.user_id,
                                               ![l.fid].claim_age = 0]
               /\ Return(w, Res("claim", "ok", l.fid, l.user_id))
          ELSE /\ UNCHANGED feedback
               /\ Return(w, Res("claim", "Raised", l.fid, l.user_id))

\* validate_feedback lines 173-191: validator_id is str(g.current_user_id),
\* feedback.claimed_by the loaded column value
ClaimValidate(w, f, v, rating) ==
    /\ Idle(w)
    /\ UNCHANGED world
    /\ UNCHANGED <<ratings, validations, entries, roles>>
    /\ IF ~FeedbackExists(f)
       THEN /\ UNCHANGED feedback
            /\ Return(w, Res("claim_validate", "NotFound", f, v))
       ELSE IF LoadClaimedBy(feedback[f].claimed_by) # StrKey(v)
       THEN /\ UNCHANGED feedback
            /\ Return(w, Res("claim_validate", "Forbidden", f, v))
       ELSE \E dbOk \in BOOLEAN :
              IF dbOk
              THEN /\ feedback' = [feedback EXCEPT ![f].rating = rating,
                                                   ![f].claimed_by = NoVal,
                                                   ![f].claim_age = 0]
                   /\ Return(w, Res("claim_validate", "ok", f, v))
              ELSE /\ UNCHANGED feedback
                   /\ Return(w, Res("claim_validate", "Raised", f, v))

\* five minutes pass: every claim held is now older than that
ClaimTick ==
    /\ \E f \in 1..Len(feedback) :
          feedback[f].claimed_by # NoVal /\ feedback[f].claim_age = 0
    /\ feedback' = [f \in 1..Len(feedback) |->
                      [feedback[f] EXCEPT !.claim_age =
                          IF feedback[f].claimed_by # NoVal THEN 1 ELSE @]]
    /\ last' = NoResult
    /\ UNCHANGED <<ratings, validations, entries, world, roles, pc, loc>>

----------------------------------------------------------------------------
(* PromptService.submit_prompt and submit_chat_message *)

PromptsOf(i) == {p \in 1..Len(prompts) : prompts[p].interaction_id = i}
ResponsesOf(p) == {r \in 1..Len(responses) : responses[r].prompt_id = p}

\* submit_prompt lines 38-45: one more than the highest number in use
NextSequenceNumber(i) ==
    IF PromptsOf(i) = {} THEN 1
    ELSE 1 + (CHOOSE n \in {prompts[p].sequence_number : p \in PromptsOf(i)} :
                 \A p \in PromptsOf(i) : prompts[p].sequence_number <= n)

\* submit_chat_message line 240: len(previous_exchanges) + 1
ChatSequenceNumber(i) == Cardinality(PromptsOf(i)) + 1

\* lines 30-45 and 199-237: the reads before the prompt is built; op is
\* submit_prompt or submit_chat_message
PromptBegin(w, op, i) ==
    /\ Idle(w)
    /\ UNCHANGED <<store, world, roles>>
    /\ IF i \notin 1..Len(interactions)
       THEN Return(w, Res(op, "NotFound", i, NoVal))
       ELSE IF interactions[i].status # "ACTIVE"
       THEN Return(w, Res(op, "NotActive", i, NoVal))
       ELSE Goto(w, "pr_commit",
                 [op |-> op, interaction_id |-> i,
                  sequence_number |-> IF op = "submit_prompt"
                                      THEN NextSequenceNumber(i)
                                      ELSE ChatSequenceNumber(i)])

\* models/prompt.py:44-57: the prompts table declares no constraint on
\* (interaction_id, sequence_number)
PromptInsertAllowed(i, n) == TRUE

\* lines 47-56 and 239-251: the prompt is committed on its own, outside
\* any try, before the model service is asked
PromptCommit(w) ==
    /\ pc[w] = "pr_commit"
    /\ UNCHANGED <<store, interactions, catalog, responses, roles>>
    /\ LET l == loc[w] IN
       \E dbOk \in BOOLEAN :
          IF dbOk /\ PromptInsertAllowed(l.interaction_id, l.sequence_number)
          THEN /\ prompts' = Append(prompts,
                      [interaction_id |-> l.interaction_id,
                       sequence_number |-> l.sequence_number])
               /\ Goto(w, "pr_respond",
                       [op |-> l.op, interaction_id |-> l.interaction_id,
                        prompt_id |-> Len(prompts) + 1])
          ELSE /\ UNCHANGED prompts
               /\ Return(w, Res(l.op, "RaisedCommit", NoId, NoVal))

\* what the model service does when submit_prompt queries the endpoint:
\* a result, an error result, or an exception
QueryOutcomes == {"ok", "error", "raises"}

\* what the model service does during submit_chat_message: the endpoint
\* listing has a matching endpoint, has none, fails, or has a body that is
\* not an object (list_endpoints then raises at response.data.get);
\* validate_model answers; the chat completion gives a result, an error
\* result or an exception
ChatOutcomes ==
    {<<"malformed", TRUE, "ok">>, <<"failed", TRUE, "ok">>,
     <<"nomatch", TRUE, "ok">>, <<"match", FALSE, "ok">>,
     <<"match", TRUE, "ok">>, <<"match", TRUE, "error">>,
     <<"match", TRUE, "raises">>}

\* responses.prompt_id is unique
ResponseInsertAllowed(p) == ResponsesOf(p) = {}

\* the Response is added and committed; when that commit fails inside the
\* try, the except adds a second Response and commits a session that
\* needs a rollback first, which raises again
RespondCommit(w, l, content) ==
    \E dbOk \in BOOLEAN :
       IF dbOk /\ ResponseInsertAllowed(l.prompt_id)
       THEN /\ responses' = Append(responses,
                   [prompt_id |-> l.prompt_id, content |-> content])
            /\ Return(w, Res(l.op, "ok", l.prompt_id, NoVal))
       ELSE /\ UNCHANGED responses
            /\ Return(w, Res(l.op, "RaisedCommit", l.prompt_id, NoVal))

\* submit_prompt lines 65-156: the query and every reading of its result
\* run inside the try, whose except builds the error response
PromptRespond(w, outcome) ==
    /\ pc[w] = "pr_respond" /\ loc[w].op = "submit_prompt"
    /\ UNCHANGED <<store, interactions, catalog, prompts, roles>>
    /\ RespondCommit(w, loc[w],
          CASE outcome = "ok" -> "generated"
            [] outcome = "error" -> "Error: model service"
            [] OTHER -> "An error occurred")

\* submit_chat_message lines 261-388: list_endpoints and the scan of its
\* result run outside any try; no matching endpoint and an undeployed model
\* each store an error response; the chat completion runs inside the try
ChatRespond(w, listing, valid, completion) ==
    /\ pc[w] = "pr_respond" /\ loc[w].op = "submit_chat_message"
    /\ UNCHANGED <<store, interactions, catalog, prompts, roles>>
    /\ IF listing = "malformed"
       THEN /\ UNCHANGED responses
            /\ Return(w, Res("submit_chat_message", "Raised",
                             loc[w].prompt_id, NoVal))
       ELSE RespondCommit(w, loc[w],
              CASE listing # "match" -> "Error: No active endpoint"
                [] ~valid -> "Error: Model not deployed"
                [] completion = "ok" -> "generated"
                [] completion = "error" -> "Error: chat completion"
                [] OTHER -> "An error occurred")

----------------------------------------------------------------------------
(* The identity collaborator *)

\* the profile service stops listing the validation expertise of user u;
\* nothing in this service hears of it, the lru_cache of has_role is
\* untouched
RevokeRole(u) ==
    /\ u \in isValidator
    /\ \A w \in DOMAIN pc : Idle(w)
    /\ isValidator' = isValidator \ {u}
    /\ last' = NoResult
    /\ UNCHANGED <<store, world, roleCache, pc, loc>>

\* the profile service starts listing it
GrantRole(u) ==
    /\ u \notin isValidator
    /\ \A w \in DOMAIN pc : Idle(w)
    /\ isValidator' = isValidator \cup {u}
    /\ last' = NoResult
    /\ UNCHANGED <<store, world, roleCache, pc, loc>>

----------------------------------------------------------------------------
(* Specifications *)

\* the table has room for another row, counting the submissions in flight
Room(max) == Len(feedback) + InFlightCreates < max

InitWith(workers) ==
    /\ feedback = <<>>
    /\ ratings = <<>>
    /\ validations = <<>>
    /\ entries = <<>>
    /\ interactions = <<>>
    /\ dimensions = Dimensions
    /\ dimIssued = Cardinality(Dimensions)
    /\ prompts = <<>>
    /\ responses = <<>>
    /\ isValidator \in SUBSET Users
    /\ roleCache = [u \in Users |-> "miss"]
    /\ pc = [w \in workers |-> "idle"]
    /\ loc = [w \in workers |-> IdleLoc]
    /\ last = NoResult

\* Spec: one request at a time; dimension-rated submission with the full
\* input sets, ValidationService and curation
FeedbackIdInputs == 1..(MaxFeedback + 1)

\* (response_id, dimension_ratings) of a create_feedback call: every list
\* for the stored response, one call for a response that does not exist
CreateInputs ==
    {<<r, input>> : r \in ResponseIds, input \in RatingLists}
        \cup {<<r, <<>>>> : r \in ResponseInputs \ ResponseIds}

Init == InitWith(Workers)

Next ==
    \/ \E w \in Workers, u \in Users, c \in CreateInputs :
          Room(MaxFeedback) /\ CreateFeedbackBegin(w, c[1], u, c[2])
    \/ \E w \in Workers : CreateFeedbackCommit(w)
    \/ \E w \in Workers : CreateFeedbackPost(w)
    \/ \E w \in Workers, f \in FeedbackIdInputs, v \in Users,
          is_valid \in BOOLEAN, via \in {"service", "api"} :
          ValidateBegin(w, f, v, is_valid, via)
    \/ \E w \in Workers : ValidateCommit(w)
    \/ \E w \in Workers, f \in FeedbackIdInputs : Curate(w, f)
    \/ \E w \in Workers : CurateRead(w)
    \/ \E w \in Workers : CurateCommit(w)

Spec == Init /\ [][Next]_vars

\* SpecRace: the same operations with two requests in flight
RaceRatingLists ==
    { << [dimension_id |-> "TONE", score |-> Score(1), correct_response |-> "c1"] >> }

RaceFeedbackIds == 1..MaxRaceFeedback

InitRace == InitWith(RaceWorkers)

NextRace ==
    \/ \E w \in RaceWorkers, r \in ResponseIds, u \in Users, input \in RaceRatingLists :
          Room(MaxRaceFeedback) /\ CreateFeedbackBegin(w, r, u, input)
    \/ \E w \in RaceWorkers : CreateFeedbackCommit(w)
    \/ \E w \in RaceWorkers : CreateFeedbackPost(w)
    \/ \E w \in RaceWorkers, f \in RaceFeedbackIds, v \in Users,
          is_valid \in BOOLEAN, via \in {"service", "api"} :
          ValidateBegin(w, f, v, is_valid, via)
    \/ \E w \in RaceWorkers : ValidateCommit(w)
    \/ \E w \in RaceWorkers, f \in RaceFeedbackIds : Curate(w, f)
    \/ \E w \in RaceWorkers : CurateRead(w)
    \/ \E w \in RaceWorkers : CurateCommit(w)

SpecRace == InitRace /\ [][NextRace]_vars

\* SpecCategory: one request at a time; both submission entry points and
\* the validation entry point of FeedbackService
CategoryRatingLists ==
    { <<>>,
      << [dimension_id |-> "d1", score |-> Score(5), correct_response |-> NoVal] >> }

CategoryFeedbackIds == 1..(MaxCategoryFeedback + 1)

NextCategory ==
    \/ \E w \in Workers, r \in ResponseInputs, u \in Users, input \in CategoryRatingLists :
          Room(MaxCategoryFeedback) /\ CreateFeedbackBegin(w, r, u, input)
    \/ \E w \in Workers : CreateFeedbackCommit(w)
    \/ \E w \in Workers : CreateFeedbackPost(w)
    \/ \E w \in Workers : CurateRead(w)
    \/ \E w \in Workers : CurateCommit(w)
    \/ \E w \in Workers, p \in PromptInputs, u \in Users, sig \in SignalChoices :
          Room(MaxCategoryFeedback) /\ SubmitFeedback(w, p, u, sig[1], sig[2], sig[3])
    \/ \E w \in Workers, f \in CategoryFeedbackIds, v \in Users, s \in StatusInputs :
          FeedbackServiceValidate(w, f, v, s)

SpecCategory == Init /\ [][NextCategory]_vars

\* SpecCurate: one request at a time; rows of both submission entry points
\* reach ValidationService and the curation. A row written by
\* submit_feedback carries no response_id.
CurateRatingLists ==
    { << [dimension_id |-> "TONE", score |-> Score(1), correct_response |-> "c1"],
         [dimension_id |-> "d1", score |-> Score(5), correct_response |-> "c2"] >>,
      << [dimension_id |-> "d1", score |-> Score(5), correct_response |-> NoVal] >> }

CurateSignals == { <<3, NoVal, NoneInt>> }

CurateFeedbackIds == 1..(MaxCurateFeedback + 1)

NextCurate ==
    \/ \E w \in Workers, r \in ResponseIds, u \in Users, input \in CurateRatingLists :
          Room(MaxCurateFeedback) /\ CreateFeedbackBegin(w, r, u, input)
    \/ \E w \in Workers : CreateFeedbackCommit(w)
    \/ \E w \in Workers : CreateFeedbackPost(w)
    \/ \E w \in Workers, p \in PromptInputs, u \in Users, sig \in CurateSignals :
          Room(MaxCurateFeedback) /\ SubmitFeedback(w, p, u, sig[1], sig[2], sig[3])
    \/ \E w \in Workers, f \in CurateFeedbackIds, v \in Users, is_valid \in BOOLEAN :
          ValidateBegin(w, f, v, is_valid, "service")
    \/ \E w \in Workers : ValidateCommit(w)
    \/ \E w \in Workers, f \in CurateFeedbackIds : Curate(w, f)
    \/ \E w \in Workers : CurateRead(w)
    \/ \E w \in Workers : CurateCommit(w)

SpecCurate == Init /\ [][NextCurate]_vars

\* SpecRank: one request at a time; submissions, both validation entry
\* points, interactions, the passing of time and the leaderboard
RankRatingLists ==
    { << [dimension_id |-> "d1", score |-> Score(5), correct_response |-> NoVal] >> }

RankSignals == { <<3, NoVal, NoneInt>> }

RankFeedbackIds == 1..MaxRankFeedback

\* (time_period, category, limit) of a ranking request
RankInputs ==
    {<<tp, NoVal, 100>> : tp \in TimePeriods \cup {"yearly"}}
        \cup {<<"all_time", SubmitCategory, 100>>,
              <<"all_time", NoVal, 1>>, <<"all_time", NoVal, 0>>}

RankProfileInputs == {"missing", "raises"}

RankEndStatusInputs == {"COMPLETED"}

\* the user who starts interactions
RankInteractionUsers == {"u1"}

InitRank == InitWith(Workers) /\ isValidator = {}

NextRank ==
    \/ \E w \in Workers, r \in ResponseIds, u \in Users, input \in RankRatingLists :
          Room(MaxRankFeedback) /\ CreateFeedbackBegin(w, r, u, input)
    \/ \E w \in Workers : CreateFeedbackCommit(w)
    \/ \E w \in Workers : CreateFeedbackPost(w)
    \/ \E w \in Workers, p \in PromptInputs \cap {PromptOfResponse[r] : r \in ResponseIds},
          u \in Users, sig \in RankSignals :
          Room(MaxRankFeedback) /\ SubmitFeedback(w, p, u, sig[1], sig[2], sig[3])
    \/ \E w \in Workers, f \in RankFeedbackIds, v \in Admins :
          ValidateBegin(w, f, v, TRUE, "service")
    \/ \E w \in Workers : ValidateCommit(w)
    \/ \E w \in Workers : CurateRead(w)
    \/ \E w \in Workers : CurateCommit(w)
    \/ \E w \in Workers, f \in RankFeedbackIds, v \in Admins :
          FeedbackServiceValidate(w, f, v, "ACCEPTED")
    \/ \E w \in Workers, u \in RankInteractionUsers :
          Len(interactions) < MaxInteractions /\ CreateInteraction(w, u)
    \/ \E w \in Workers, i \in 1..MaxInteractions, s \in RankEndStatusInputs :
          EndInteraction(w, i, s)
    \/ Tick
    \/ \E w \in Workers, a \in RankInputs, profiles \in RankProfileInputs :
          GetRankings(w, a[1], a[2], a[3], profiles)

SpecRank == InitRank /\ [][NextRank]_vars

\* SpecDimension: the dimension catalogue under two workers: creation,
\* both update paths and deletion
DimensionModelInputs == {"all", "m1"}
DimensionNameInputs == {"accuracy", "tone"}
\* ids a caller may name
DimensionIdInputs == {"d1", "d2"}
\* (name, is_active) of an update_dimension call: a rename, or a change of
\* is_active
UpdateInputs ==
    {<<n, NoVal>> : n \in DimensionNameInputs}
        \cup {<<NoVal, a>> : a \in {"True", "False"}}

InFlightDimensions == Cardinality({w \in DOMAIN pc : pc[w] = "cd_commit"})

DimensionRoom ==
    dimIssued + InFlightDimensions < Cardinality(Dimensions) + MaxNewDimensions

InitDimension == InitWith(RaceWorkers) /\ isValidator = {}

NextDimension ==
    \/ \E w \in RaceWorkers, m \in DimensionModelInputs,
          n \in DimensionNameInputs, valid \in BOOLEAN :
          DimensionRoom /\ CreateDimensionBegin(w, m, n, valid)
    \/ \E w \in RaceWorkers : CreateDimensionCommit(w)
    \/ \E w \in RaceWorkers, id \in DimensionIdInputs, u \in UpdateInputs :
          UpdateDimensionBegin(w, id, u[1], u[2])
    \/ \E w \in RaceWorkers : UpdateDimensionCommit(w)
    \/ \E w \in RaceWorkers, id \in DimensionIdInputs,
          n \in DimensionNameInputs : UpdateDimensionRoute(w, id, n)
    \/ \E w \in RaceWorkers, id \in DimensionIdInputs : DeleteDimension(w, id)

SpecDimension == InitDimension /\ [][NextDimension]_vars

\* SpecCatalog: the catalogue next to the ratings that reference it, under
\* two workers: dimension-rated submission, deactivation, deletion and
\* listing
CatalogRatingLists ==
    { << [dimension_id |-> "d1", score |-> Score(5), correct_response |-> NoVal] >>,
      << [dimension_id |-> "TONE", score |-> Score(4), correct_response |-> NoVal] >> }
\* models a listing may be asked for: one with rows of its own and one
\* that only the universal rows apply to
ListModelInputs == {"m1", "m3"}
CatalogUpdateInputs == {<<NoVal, "False">>, <<NoVal, "True">>}
CatalogIdInputs == {"d1", "d2", "d4"}

InitCatalog == InitWith(RaceWorkers) /\ isValidator = {}

NextCatalog ==
    \/ \E w \in RaceWorkers, r \in ResponseIds, input \in CatalogRatingLists :
          Room(MaxDimensionFeedback) /\ CreateFeedbackBegin(w, r, "u1", input)
    \/ \E w \in RaceWorkers : CreateFeedbackCommit(w)
    \/ \E w \in RaceWorkers : CreateFeedbackPost(w)
    \/ \E w \in RaceWorkers, id \in CatalogIdInputs, u \in CatalogUpdateInputs :
          UpdateDimensionBegin(w, id, u[1], u[2])
    \/ \E w \in RaceWorkers : UpdateDimensionCommit(w)
    \/ \E w \in RaceWorkers, id \in CatalogIdInputs : DeleteDimension(w, id)
    \/ \E w \in RaceWorkers, m \in ListModelInputs, active_only \in BOOLEAN :
          GetModelDimensions(w, m, active_only)

SpecCatalog == InitCatalog /\ [][NextCatalog]_vars

\* SpecClaim: the claim routes under two workers
MaxClaimFeedback == 2
ClaimSignals == { <<3, NoVal, NoneInt>> }
ClaimFeedbackIds == 1..(MaxClaimFeedback + 1)

InitClaim == InitWith(RaceWorkers) /\ isValidator = {}

NextClaim ==
    \/ \E w \in RaceWorkers, p \in PromptInputs, sig \in ClaimSignals :
          Room(MaxClaimFeedback) /\ SubmitFeedback(w, p, "u1", sig[1], sig[2], sig[3])
    \/ \E w \in RaceWorkers, v \in Users : ClaimBegin(w, v)
    \/ \E w \in RaceWorkers : ClaimCommit(w)
    \/ \E w \in RaceWorkers, f \in ClaimFeedbackIds, v \in Users :
          ClaimValidate(w, f, v, 4)
    \/ ClaimTick

SpecClaim == InitClaim /\ [][NextClaim]_vars

\* SpecPrompt: prompts and responses of interactions under two workers
MaxPrompts == 2
PromptOps == {"submit_prompt", "submit_chat_message"}
PromptInteractionIds == 1..(MaxInteractions + 1)
InFlightPrompts == Cardinality({w \in DOMAIN pc : pc[w] = "pr_commit"})

InitPrompt == InitWith(RaceWorkers) /\ isValidator = {}

NextPrompt ==
    \/ \E w \in RaceWorkers :
          Len(interactions) < MaxInteractions /\ CreateInteraction(w, "u1")
    \/ \E w \in RaceWorkers, i \in PromptInteractionIds :
          EndInteraction(w, i, "COMPLETED")
    \/ \E w \in RaceWorkers, op \in PromptOps, i \in PromptInteractionIds :
          Len(prompts) + InFlightPrompts < MaxPrompts /\ PromptBegin(w, op, i)
    \/ \E w \in RaceWorkers : PromptCommit(w)
    \/ \E w \in RaceWorkers, outcome \in QueryOutcomes : PromptRespond(w, outcome)
    \/ \E w \in RaceWorkers, c \in ChatOutcomes : ChatRespond(w, c[1], c[2], c[3])

SpecPrompt == InitPrompt /\ [][NextPrompt]_vars

\* SpecRole: submission and validation while the identity collaborator
\* grants and revokes the validator role
MaxRoleFeedback == 1
RoleFeedbackIds == 1..(MaxRoleFeedback + 1)

NextRole ==
    \/ \E w \in Workers, r \in ResponseIds, u \in Users, input \in CurateRatingLists :
          Room(MaxRoleFeedback) /\ CreateFeedbackBegin(w, r, u, input)
    \/ \E w \in Workers : CreateFeedbackCommit(w)
    \/ \E w \in Workers : CreateFeedbackPost(w)
    \/ \E w \in Workers, f \in RoleFeedbackIds, v \in Users, is_valid \in BOOLEAN :
          ValidateBegin(w, f, v, is_valid, "service")
    \/ \E w \in Workers : ValidateCommit(w)
    \/ \E w \in Workers : CurateRead(w)
    \/ \E w \in Workers : CurateCommit(w)
    \/ \E u \in Users : RevokeRole(u)
    \/ \E u \in Users : GrantRole(u)

SpecRole == Init /\ [][NextRole]_vars

----------------------------------------------------------------------------
(* Properties *)

\* the step was taken by a request that started in it: no request already
\* in flight moved
StartStep == \A w \in DOMAIN pc : pc[w] # "idle" => pc'[w] = pc[w]

\* the step started a call and returned its result at once
StartReturn == StartStep /\ last' # NoResult

\* user u has a committed feedback row about response r, written by
\* create_feedback
HasCommittedResponse(u, r) ==
    \E i \in 1..Len(feedback) :
        feedback[i].user_id = u /\ feedback[i].response_id = r

\* user u has a committed feedback row about the response to prompt p,
\* written by submit_feedback
HasCommittedPrompt(u, p) ==
    \E i \in 1..Len(feedback) :
        feedback[i].user_id = u /\ feedback[i].prompt_id = p

\* the rating names no dimension that applies to the model, or its score
\* is not a number, or is a number below 1 or above 5
RatingFails(rd, model) ==
    \/ ~\E d \in dimensions :
          /\ d.id = rd.dimension_id \/ Lower(d.name) = Lower(rd.dimension_id)
          /\ d.model_id \in {model, "all"}
    \/ rd.score.kind = "text"
    \/ rd.score.kind = "int" /\ rd.score.val \notin 1..5
    \/ rd.score.kind = "float" /\ (rd.score.val < 10 \/ rd.score.val > 50)

\* C1: a feedback row starts with its status attributes PENDING, rows are
\* never removed, and a status attribute that has left PENDING never
\* changes again, whichever entry point writes it.
C1_StatusMonotonic ==
    [][ /\ Len(feedback') >= Len(feedback)
        /\ \A f \in 1..Len(feedback') :
             IF f > Len(feedback)
             THEN /\ feedback'[f].status = "PENDING"
                  /\ feedback'[f].validation_status = "PENDING"
             ELSE /\ feedback[f].status # "PENDING"
                        => feedback'[f].status = feedback[f].status
                  /\ feedback[f].validation_status # "PENDING"
                        => feedback'[f].validation_status
                              = feedback[f].validation_status
      ]_vars

\* C2: of two concurrent validate calls on one PENDING feedback row, the
\* call that reaches its commit after the other has committed returns the
\* already-validated error and leaves the row's status and the validation
\* record of the first call as they are.
C2_LoserAlreadyValidated ==
    [][ \A w \in DOMAIN pc :
          ( /\ pc[w] = "vf_commit"
            /\ pc'[w] # "vf_commit"
            /\ \E i \in 1..Len(validations) :
                  /\ validations[i].feedback_id = loc[w].fid
                  /\ validations[i].notes = "manual" )
          => ( /\ last'.op = "validate"
               /\ last'.kind = "AlreadyValidated"
               /\ UNCHANGED <<feedback, validations>> )
      ]_vars

C4_OnePerPair ==
    \A i, j \in 1..Len(feedback) :
        ( /\ feedback[i].user_id = feedback[j].user_id
          /\ feedback[i].response_id = feedback[j].response_id
          /\ feedback[i].prompt_id = feedback[j].prompt_id )
        => i = j

\* C5: a submission, valid in everything else, by a user who already has a
\* committed feedback row about the response is turned away with the
\* duplicate error by create_feedback, does not succeed in submit_feedback,
\* and leaves the feedback rows and the dimension ratings as they are.
C5_DuplicateRejected ==
    [][ \A w \in DOMAIN pc, u \in Users, r \in ResponseIds :
          /\ HasCommittedResponse(u, r) =>
               \A input \in {l \in CategoryRatingLists : l # <<>>} :
                  CreateFeedbackBegin(w, r, u, input)
                     => ( /\ last'.kind = "Duplicate"
                          /\ UNCHANGED <<feedback, ratings>> )
          /\ HasCommittedPrompt(u, PromptOfResponse[r]) =>
               \A sig \in {c \in SignalChoices : c[1] \in 1..5} :
                  SubmitFeedback(w, PromptOfResponse[r], u, sig[1], sig[2], sig[3])
                     => ( /\ last'.kind # "ok"
                          /\ UNCHANGED <<feedback, ratings>> )
      ]_vars

\* C6: a create_feedback call that returns anything but success leaves the
\* feedback rows and the dimension ratings as they were; nothing is stored
\* before the commit; and the commit that stores the submission stores the
\* feedback row together with one rating per rating of the call, none of
\* which names an unknown or inapplicable dimension or has a score that is
\* not a number from 1 to 5.
C6_AllOrNothing ==
    [][ /\ ( /\ last' # NoResult
             /\ last'.op = "create"
             /\ last'.kind # "ok" )
           => UNCHANGED <<feedback, ratings>>
        /\ \A w \in DOMAIN pc :
             (pc[w] = "idle" /\ pc'[w] = "cf_commit")
                => UNCHANGED <<feedback, ratings>>
        /\ \A w \in DOMAIN pc :
             (pc[w] = "cf_commit" /\ pc'[w] = "cf_post") =>
                /\ \A k \in 1..Len(loc[w].input) :
                     ~RatingFails(loc[w].input[k],
                        ModelOfResponse[loc[w].session.feedback[1].response_id])
                /\ Len(feedback') = Len(feedback) + 1
                /\ SubSeq(feedback', 1, Len(feedback)) = feedback
                /\ Len(ratings') = Len(ratings) + Len(loc[w].input)
                /\ SubSeq(ratings', 1, Len(ratings)) = ratings
                /\ \A i \in (Len(ratings) + 1)..Len(ratings') :
                     ratings'[i].feedback_id = Len(feedback')
      ]_vars

\* C7: every stored feedback row carries at least one evaluation signal: a
\* dimension rating, a scalar rating, a binary evaluation or a ranking.
C7_EverySignal ==
    \A f \in 1..Len(feedback) :
        \/ Len(RatingsOf(f)) > 0
        \/ HasSignal(feedback[f].rating, feedback[f].binary_evaluation,
                     feedback[f].ranking)

\* C8: validate called on a PENDING feedback row by the row's own submitter
\* is never turned away when the submitter holds the admin permission, with
\* or without the validator role; a submitter who holds the validator role
\* but not the admin permission gets the self-validation error; and a call
\* that is turned away changes nothing.
C8_SelfValidation ==
    [][ /\ ( /\ StartReturn
             /\ last'.op \in {"validate", "validate_api"}
             /\ FeedbackExists(last'.fid)
             /\ feedback[last'.fid].status = "PENDING"
             /\ feedback[last'.fid].user_id = last'.user )
           => ( /\ last'.user \notin Admins
                /\ last'.user \in isValidator => last'.kind = "SelfValidation"
                /\ UNCHANGED store )
        /\ \A w \in DOMAIN pc :
             ( /\ pc[w] = "idle"
               /\ pc'[w] = "vf_commit"
               /\ feedback[loc'[w].fid].user_id = loc'[w].user_id )
             => loc'[w].user_id \in Admins
      ]_vars

\* C9: a validation entry point called by a user who holds neither the
\* validator role nor the admin permission does not succeed and changes
\* nothing in the store.
C9_UnauthorizedChangesNothing ==
    [][ ( /\ last' # NoResult
          /\ last'.op \in {"validate", "validate_api", "fs_validate"}
          /\ last'.user \notin isValidator
          /\ last'.user \notin Admins )
        => ( last'.kind # "ok" /\ UNCHANGED store )
      ]_vars

\* C10: a feedback row has at most one dataset entry, and every dataset
\* entry is of a row that was validated and has not been rejected since.
C10_EntriesOfAccepted ==
    /\ \A i, j \in 1..Len(entries) :
          entries[i].feedback_id = entries[j].feedback_id => i = j
    /\ \A i \in 1..Len(entries) :
          /\ feedback[entries[i].feedback_id].status = "VALIDATED"
          /\ feedback[entries[i].feedback_id].validation_status # "REJECTED"


\* C11: curating an accepted feedback id a second time, after or while
\* another curation of it runs, returns the entry that exists and neither
\* adds an entry nor changes the stored ones. Here: a curate call that
\* reaches its commit right after another curate call of the same id has
\* created the entry returns that entry.
C11_CurateIdempotent ==
    [][\A w \in DOMAIN pc :
         (/\ pc[w] = "cur_commit"
          /\ pc'[w] = "idle"
          /\ loc[w].op = "curate"
          /\ last = Res("curate", "created", loc[w].fid, NoVal)
          /\ EntryExists(loc[w].fid))
         => (last'.kind = "existing" /\ UNCHANGED entries)]_vars


\* the response, prompt or interaction a feedback row hangs on is missing
ChainMissing(f) == feedback[f].response_id \notin ResponseIds

FirstCorrection(rs) ==
    LET withCorrection == {i \in 1..Len(rs) : rs[i].correct_response # NoVal} IN
    IF withCorrection = {} THEN NoVal
    ELSE rs[CHOOSE i \in withCorrection :
                \A j \in withCorrection : i <= j].correct_response

\* C13: the corrected response of every dataset entry is the correction of
\* the first rating of its feedback record, in insertion order, that has a
\* correction, and is null when no rating has one.
C13_FirstCorrectionWins ==
    \A i \in 1..Len(entries) :
        entries[i].correct_response =
            FirstCorrection(RatingsOf(entries[i].feedback_id))


\* worker w returns from a submission it reports as successful, made by a
\* user who holds the validator role
ValidatorCreateReturns(w) ==
    /\ pc[w] \in {"cf_post", "cur_read", "cur_commit"}
    /\ loc[w].op = "create"
    /\ pc'[w] = "idle"
    /\ last' = Res("create", "ok", loc[w].fid, loc[w].user_id)
    /\ loc[w].user_id \in isValidator

\* after the step: the record is validated, has its is_valid = true
\* validation record, and has (hasEntry) or has not a dataset entry
AutoValidatedAfter(f, hasEntry) ==
    /\ feedback'[f].status = "VALIDATED"
    /\ \E i \in 1..Len(validations') :
          /\ validations'[i].feedback_id = f
          /\ validations'[i].is_valid
    /\ hasEntry <=> \E i \in 1..Len(entries') : entries'[i].feedback_id = f

\* after the step: the record is pending, with no validation record and
\* no dataset entry
NotValidatedAfter(f) ==
    /\ feedback'[f].status = "PENDING"
    /\ \A i \in 1..Len(validations') : validations'[i].feedback_id # f
    /\ \A i \in 1..Len(entries') : entries'[i].feedback_id # f

CurationFailsInValidate(w) ==
    /\ loc[w].op = "validate"
    /\ pc'[w] = "idle"
    /\ \/ pc[w] = "cur_read"
       \/ pc[w] = "cur_commit" /\ UNCHANGED entries

\* C15: when the curation fails during a validate call with is_valid = true,
\* the call still returns success, and the committed validation record and
\* the validated status stay in the store: nothing of the validation is
\* rolled back.
C15_CurationFailureKeepsValidation ==
    [][\A w \in DOMAIN pc :
         CurationFailsInValidate(w) =>
           /\ last' = Res("validate", "ok", loc[w].fid, loc[w].user_id)
           /\ UNCHANGED <<feedback, validations>>
           /\ feedback'[loc[w].fid].status = "VALIDATED"
           /\ \E i \in 1..Len(validations') :
                 validations'[i] =
                    NewValidation(loc[w].fid, loc[w].user_id, TRUE, "manual")]_vars

\* a validate call has returned success for a record that is validated and
\* has its validation record, while the curation stored no entry
C15_Witness ==
    /\ last.op = "validate"
    /\ last.kind = "ok"
    /\ feedback[last.fid].status = "VALIDATED"
    /\ ValidationExists(last.fid)
    /\ ~EntryExists(last.fid)


\* the row of feedback id f with its status left out
RowWithoutStatus(rows, f) == [rows[f] EXCEPT !.status = "PENDING"]

\* C16: after the submission has committed, a failure of a best-effort side
\* effect (event publication, the role lookup or the auto-validation with
\* its curation, the ledger credit) never makes the submission report
\* failure and never removes or changes the committed feedback record and
\* its ratings.
C16_SideEffectsBestEffort ==
    [][\A w \in DOMAIN pc :
         (/\ pc[w] \in {"cf_post", "cur_read", "cur_commit"}
          /\ loc[w].op = "create"
          /\ pc'[w] # pc[w])
         => /\ Len(feedback') = Len(feedback)
            /\ RowWithoutStatus(feedback', loc[w].fid)
                  = RowWithoutStatus(feedback, loc[w].fid)
            /\ UNCHANGED ratings
            /\ pc'[w] = "idle"
                  => last' = Res("create", "ok", loc[w].fid, loc[w].user_id)]_vars

\* a validator's submission has returned success although its
\* auto-validation failed; the record and its ratings are stored
C16_Witness ==
    /\ last.op = "create"
    /\ last.kind = "ok"
    /\ last.user \in isValidator
    /\ feedback[last.fid].status = "PENDING"
    /\ ~ValidationExists(last.fid)
    /\ Len(RatingsOf(last.fid)) > 0


\* the step just taken returned a ranking
Ranked == last.op = "rank" /\ last.kind = "ok"

\* the points of user u in the window: 5 per feedback record submitted, 10
\* per feedback record accepted, 2 per interaction started, 5 per
\* interaction completed
ExpectedPoints(u, time_period) ==
    LET fb == {i \in 1..Len(feedback) :
                  feedback[i].user_id = u /\ InWindow(feedback[i].age, time_period)}
        ia == {i \in 1..Len(interactions) :
                  interactions[i].user_id = u
                  /\ InWindow(interactions[i].age, time_period)}
    IN 5 * Cardinality(fb)
       + 10 * Cardinality({i \in fb : feedback[i].validation_status = "ACCEPTED"})
       + 2 * Cardinality(ia)
       + 5 * Cardinality({i \in ia : interactions[i].status = "COMPLETED"})

\* user u has a feedback record or an interaction in the window
ActiveInWindow(u, time_period) ==
    \/ \E i \in 1..Len(feedback) :
          feedback[i].user_id = u /\ InWindow(feedback[i].age, time_period)
    \/ \E i \in 1..Len(interactions) :
          interactions[i].user_id = u /\ InWindow(interactions[i].age, time_period)

\* C17: for every user, the total points of a ranking are 5 x feedback
\* records submitted + 10 x feedback records accepted + 2 x interactions
\* started + 5 x interactions completed, counted within the requested
\* window. Stated for rankings without a category filter: every entry of a
\* user carries that total, and a user with activity in the window has an
\* entry unless the limit cut the list.
C17_TotalPoints ==
    (Ranked /\ last.category = NoVal) =>
        \A u \in Users :
           /\ \A k \in 1..Len(last.rankings) :
                 last.rankings[k].user_id = u =>
                    last.rankings[k].total_points
                        = ExpectedPoints(u, last.time_period)
           /\ (ActiveInWindow(u, last.time_period)
                  /\ Len(last.rankings) < last.limit)
                 => \E k \in 1..Len(last.rankings) : last.rankings[k].user_id = u

\* the store holds one feedback record, submitted by u on a response, which
\* an admin other than u has validated with is_valid = true, and no
\* interaction
OneValidatedRecordOf(u) ==
    /\ Len(feedback) = 1
    /\ feedback[1].user_id = u
    /\ feedback[1].response_id \in ResponseIds
    /\ feedback[1].status = "VALIDATED"
    /\ \E i \in 1..Len(validations) :
          /\ validations[i].feedback_id = 1
          /\ validations[i].is_valid
          /\ validations[i].validator_id \in Admins \ {u}
    /\ interactions = <<>>

\* C18: after a non-validator has submitted one feedback record and an
\* admin has validated it with is_valid = true, the all-time ranking gives
\* the submitter 15 points for it: 5 for the submission and 10 for the
\* acceptance.
C18_AcceptedScoresFifteen ==
    \A u \in Users \ isValidator :
        (/\ Ranked
         /\ last.time_period = "all_time"
         /\ last.category = NoVal
         /\ OneValidatedRecordOf(u))
        => /\ Len(last.rankings) = 1
           /\ last.rankings[1].user_id = u
           /\ last.rankings[1].total_points = 15

\* ascending order of the user identifiers
UserOrder(u) == IF u = "u1" THEN 1 ELSE 2

\* C19: a ranking is sorted by total points descending, users with equal
\* points appear in ascending order of their identifiers, ranks are 1-based
\* and follow the list order, and the list holds at most `limit` entries.
C19_SortedWithTieBreak ==
    Ranked =>
        /\ Len(last.rankings) <= last.limit
        /\ \A k \in 1..Len(last.rankings) : last.rankings[k].rank = k
        /\ \A i, j \in 1..Len(last.rankings) :
              i < j =>
                \/ last.rankings[i].total_points > last.rankings[j].total_points
                \/ /\ last.rankings[i].total_points = last.rankings[j].total_points
                   /\ UserOrder(last.rankings[i].user_id)
                         <= UserOrder(last.rankings[j].user_id)

\* C20: for a fixed store content, two ranking calls with the same arguments
\* return the same users in the same order with the same ranks, whatever
\* order the store returns the aggregate rows in. Here: a ranking call that
\* follows a ranking call with the same arguments, nothing having happened
\* in between, returns the same list.
C20_RankingDeterministic ==
    [][(/\ Ranked
        /\ last'.op = "rank"
        /\ last'.kind = "ok"
        /\ last'.time_period = last.time_period
        /\ last'.category = last.category
        /\ last'.limit = last.limit
        /\ UNCHANGED <<store, interactions>>)
       => last'.rankings = last.rankings]_vars


\* C21: when the profile lookup fails or raises during a ranking call, the
\* call still returns the ranking, with the placeholder as username of
\* every user whose profile is missing; it never fails because of the
\* profile collaborator.
C21_ProfileFailureTolerated ==
    [][\A w \in DOMAIN pc, a \in RankInputs, profiles \in {"missing", "raises"} :
         (/\ GetRankings(w, a[1], a[2], a[3], profiles)
          /\ a[1] \in TimePeriods
          /\ 1 <= a[3] /\ a[3] <= 1000)
         => /\ last'.kind = "ok"
            /\ \A k \in 1..Len(last'.rankings) :
                  last'.rankings[k].username = "Unknown"]_vars


\* no two active dimensions share (model_id, name)
ActiveNamesUnique ==
    \A a, b \in dimensions :
        (a.is_active /\ b.is_active /\ a.model_id = b.model_id /\ a.name = b.name)
            => a.id = b.id

\* an active dimension has the (model_id, name) a create call asks for
ActiveNameTaken(model_id, name) ==
    \E d \in dimensions : d.is_active /\ d.model_id = model_id /\ d.name = name

\* C22: after any sequence of dimension creations, updates and deletions no
\* two active dimensions share (scope, name), and a create call for a
\* (scope, name) an active dimension has returns Conflict and adds nothing.
C22_ActiveNamesUnique ==
    /\ []ActiveNamesUnique
    /\ [][\A w \in DOMAIN pc, m \in DimensionModelInputs,
            n \in DimensionNameInputs, valid \in BOOLEAN :
            (CreateDimensionBegin(w, m, n, valid) /\ ActiveNameTaken(m, n))
               => /\ last'.kind = "Conflict"
                  /\ dimensions' = dimensions]_vars

\* C22 with the model check that comes first: a create call for a taken
\* (scope, name) adds nothing and returns Conflict, or model-not-found when
\* the scope is a model the model service does not validate.
C22_ActiveNamesUniqueModelChecked ==
    /\ []ActiveNamesUnique
    /\ [][\A w \in DOMAIN pc, m \in DimensionModelInputs,
            n \in DimensionNameInputs, valid \in BOOLEAN :
            (CreateDimensionBegin(w, m, n, valid) /\ ActiveNameTaken(m, n))
               => /\ last'.kind = IF m # "all" /\ ~valid
                                   THEN "ModelNotFound" ELSE "Conflict"
                  /\ dimensions' = dimensions]_vars

\* a create call was refused as a conflict while a rename had put a second
\* dimension into a scope
C22_Witness ==
    /\ last.op = "create_dimension" /\ last.kind = "Conflict"
    /\ \E d \in dimensions : d.id = "d2" /\ d.name = "accuracy" /\ d.is_active

\* every committed rating names a row of the catalogue
RatingsReferenceDimensions ==
    \A i \in 1..Len(ratings) : \E d \in dimensions : d.id = ratings[i].dimension_id

\* C23: a dimension referenced by a persisted rating is never removed from
\* the catalogue: deleting it fails or only deactivates it, so every
\* persisted rating always references an existing dimension.
C23_ReferencedDimensionKept ==
    /\ []RatingsReferenceDimensions
    /\ [][\A w \in DOMAIN pc, id \in CatalogIdInputs :
            (DeleteDimension(w, id) /\ DimensionReferenced(id))
               => /\ last'.kind # "ok"
                  /\ \E d \in dimensions' : d.id = id]_vars

\* the deletion of a dimension a committed rating references was refused
C23_Witness ==
    /\ last.op = "delete_dimension" /\ last.kind = "SaveError"
    /\ DimensionReferenced(last.dimension_id)
    /\ \E d \in dimensions : d.id = last.dimension_id

\* C24: listing the dimensions of a model changes nothing; it returns the
\* rows of the model and the universal rows, and when there are none it
\* returns the four default dimensions without storing them.
C24_ListingReadOnlyWithDefaults ==
    [][\A w \in DOMAIN pc, m \in ListModelInputs, active_only \in BOOLEAN :
         GetModelDimensions(w, m, active_only)
            => /\ UNCHANGED <<store, catalog>>
               /\ last'.kind = "ok"
               /\ IF ApplicableDimensions(m, active_only) # {}
                  THEN last'.dimensions = ApplicableDimensions(m, active_only)
                  ELSE {d.name : d \in last'.dimensions} = DefaultDimensionNames]_vars

\* C25: no validation record has as validator the submitter of the
\* feedback it validates unless that validator holds admin capability;
\* the records of the auto-validation count too.
C25_NoSelfValidationRecord ==
    \A i \in 1..Len(validations) :
        validations[i].validator_id = feedback[validations[i].feedback_id].user_id
            => has_permission(validations[i].validator_id)

\* one of the two status attributes of row f has left PENDING
NonPending(f) ==
    feedback[f].status # "PENDING" \/ feedback[f].validation_status # "PENDING"

\* row f carries the accepted value in the status attribute that was written
Accepted(f) ==
    feedback[f].status = "VALIDATED" \/ feedback[f].validation_status = "ACCEPTED"

ValidationsOf(f) == {i \in 1..Len(validations) : validations[i].feedback_id = f}

\* C26: the validation record and the status change are written together: a
\* feedback row is non-PENDING exactly when one validation record exists
\* for it, and the record's is_valid is true exactly when the status is the
\* accepted one; a failed commit leaves neither.
C26_RecordWithStatus ==
    \A f \in 1..Len(feedback) :
        /\ NonPending(f) <=> Cardinality(ValidationsOf(f)) = 1
        /\ Cardinality(ValidationsOf(f)) <= 1
        /\ \A i \in ValidationsOf(f) : validations[i].is_valid <=> Accepted(f)

\* C27: a claim request assigns a feedback item to a validator only if the
\* item is unclaimed or its claim is older than five minutes, also when two
\* validators claim at the same time; the claim-based validate is refused
\* with the item unchanged unless the caller holds the claim, and a
\* successful one releases the claim.
C27_ClaimLease ==
    [][/\ \A w \in DOMAIN pc :
             (/\ ClaimCommit(w) /\ last'.kind = "ok"
              /\ feedback[loc[w].fid].claimed_by # loc[w].user_id)
                => Claimable(loc[w].fid)
       /\ \A w \in DOMAIN pc, f \in ClaimFeedbackIds, v \in Users :
             ClaimValidate(w, f, v, 4)
                => /\ (FeedbackExists(f) /\ feedback[f].claimed_by # v)
                       => (last'.kind # "ok" /\ feedback' = feedback)
                   /\ last'.kind = "ok" => feedback'[f].claimed_by = NoVal]_vars

\* the sequence numbers of interaction i are 1..n, each once, in the order
\* the prompts were created
SequenceNumbersInOrder(i) ==
    /\ \A p, q \in PromptsOf(i) :
          p < q => prompts[p].sequence_number < prompts[q].sequence_number
    /\ {prompts[p].sequence_number : p \in PromptsOf(i)}
          = 1..Cardinality(PromptsOf(i))

\* C28: within one interaction the prompt sequence numbers are unique and
\* form 1..n in creation order after any sequence of submit_prompt and
\* submit_chat_message calls, two concurrent calls included; a call on an
\* interaction that is not ACTIVE returns an error and creates no prompt.
C28_SequenceNumbers ==
    /\ [](\A i \in 1..Len(interactions) : SequenceNumbersInOrder(i))
    /\ [][\A w \in DOMAIN pc, op \in PromptOps, i \in 1..Len(interactions) :
            (PromptBegin(w, op, i) /\ interactions[i].status # "ACTIVE")
               => /\ last'.kind = "NotActive"
                  /\ pc'[w] = "idle"
                  /\ prompts' = prompts]_vars

\* C29: every prompt submit_prompt or submit_chat_message persists has
\* exactly one response when the call ends, whatever the model service
\* does; the end of a call whose own commit of the response failed is left
\* aside.
C29_PromptHasResponse ==
    [][\A w \in DOMAIN pc :
         (/\ pc[w] = "pr_respond" /\ pc'[w] = "idle"
          /\ last'.kind # "RaisedCommit")
            => Cardinality({r \in 1..Len(responses') :
                   responses'[r].prompt_id = loc[w].prompt_id}) = 1]_vars

\* C30: validate and the trusted-validator check of a submission go by the
\* role the caller has at the time of the call: a validate call by a user
\* who holds neither the validator role nor admin capability at that time
\* fails as Unauthorized, and a submission by a user who does not hold the
\* validator role at that time is not auto-validated, whatever an earlier
\* role check returned.
C30_RoleAtCallTime ==
    [][/\ \A w \in DOMAIN pc, f \in RoleFeedbackIds, v \in Users, is_valid \in BOOLEAN :
             (/\ ValidateBegin(w, f, v, is_valid, "service")
              /\ v \notin isValidator /\ v \notin Admins)
                => last'.kind = "Unauthorized"
       /\ \A w \in DOMAIN pc :
             (CreateFeedbackPost(w) /\ loc[w].user_id \notin isValidator)
                => validations' = validations]_vars
====
